---- MODULE Spec2Model ----
(***************************************************************************)
(* Model of the JP2Prompt gateway (src/main.py): the in-memory             *)
(* configuration store (ConfigManager), the POST /config handler and the   *)
(* POST /get_image orchestration (translate, merge parameters, call the    *)
(* image backend, persist the images).                                     *)
(* GET /config with its enrichment calls, the routing of the settings      *)
(* page's POST /config/reset and the prompt combiner of the specification  *)
(* are modelled as well.                                                   *)
(*                                                                         *)
(* Python objects that can be shared by reference are kept in heaps:       *)
(* module_objs holds the dict objects used as selected_modules values,     *)
(* entry_objs holds the history entry dicts.  A reference is an index into *)
(* the heap, so a shallow copy copies references, as dict.copy() and       *)
(* list.copy() do.                                                         *)
(***************************************************************************)
EXTENDS Integers, Sequences, FiniteSets, TLC

VARIABLES
    current_config,   \* ConfigManager.current_config (selected_modules is a reference)
    config_history,   \* ConfigManager.config_history: list of references to entry dicts
    entry_objs,       \* heap of history entry dicts {"timestamp", "config"}
    module_objs,      \* heap of dict objects used as selected_modules values
    now,              \* the wall clock read by datetime.now()
    updates,          \* number of ConfigManager.update_config calls made so far
    last_update,      \* the new_config argument of the latest update_config call
    updLog,           \* the record as it stood before each update_config call, oldest first
    last_post,        \* what the latest POST /config received, forwarded and answered
    held_config,      \* Some(the dict a library caller got from get_config()), or None
    held_history,     \* Some(the list a library caller got from get_history()), or None
    str_shows_detail, \* whether str() of an HTTPException shows its status and detail:
                      \* "yes" or "no" as the installed starlette has it, "unknown"
                      \* until the program first depends on it
    req,              \* the POST /get_image request being handled, or the last one handled
    requests,         \* number of POST /get_image requests received so far
    disk,             \* the files under SAVE_DIR: path and content
    mutations,        \* number of changes a library caller made to values it was returned
    last_get,         \* what the latest GET /config asked the backend and answered
    last_reset,       \* the answer to the latest POST /config/reset
    config_file,      \* the configuration file found on disk when the process started
    combined,         \* the texts given to the prompt combiner and its result
    prev_update,      \* the new_config argument of the update_config call before the latest
    last_proxy        \* what the latest passthrough request sent, got and answered

vars == <<current_config, config_history, entry_objs, module_objs, now, updates,
          last_update, updLog, last_post, held_config, held_history,
          str_shows_detail, req, requests, disk, mutations, last_get,
          last_reset, config_file, combined, prev_update, last_proxy>>

----------------------------------------------------------------------------
(* Bounds of the exploration *)

\* POST /config requests in a run of the service
MaxPosts == 1
\* updates of the store alone whose argument is drawn freely from the input sets
MaxUpdates == 2
\* length of a run of updates of the store alone (more than the history cap)
HistoryRun == 12
\* changes a library caller makes to the values it was returned
MaxMutations == 2
\* largest clock value
MaxClock == 1
\* POST /get_image requests in a run
MaxRequests == 1
\* most images in one answer of the image backend
MaxImages == 2
\* most tokens in a text given to the prompt combiner
MaxTextLen == 3
\* POST /config/reset requests in a run
MaxResets == 2
MaxProxied == 2

----------------------------------------------------------------------------
(* Constants of the program *)

DEFAULT_FORGE_MODEL == "sd\\ovaAnimeXL_ilV5b.safetensors"
HISTORY_LIMIT == 10

\* Python None, and a present value v; a field of a request body or of a
\* partial configuration is None or Some(v)
None == << >>
Some(v) == <<v>>

\* no value held / no call made
NoValue == [none |-> TRUE]

\* dict objects are sets of <<key, value>> pairs with distinct keys
EmptyDict == {}

\* no configuration file on disk
NoFile == [exists |-> FALSE]
FluxModules == {<<"vae", "ae.safetensors">>}

\* ConfigManager.__init__: the compiled-in record; modules is the reference
\* of the dict object held under selected_modules
DefaultConfig(modules) ==
    [sd_model_checkpoint     |-> DEFAULT_FORGE_MODEL,
     sd_vae                  |-> "Automatic",
     selected_modules        |-> modules,
     default_width           |-> 512,
     default_height          |-> 512,
     default_cfg_scale       |-> 7,
     default_steps           |-> 20,
     default_batch_size      |-> 1,
     default_batch_count     |-> 1,
     dynamic_prompts_enabled |-> FALSE]

DefaultKeys == DOMAIN DefaultConfig(1)

----------------------------------------------------------------------------
(* ConfigManager *)

\* a record with its selected_modules reference followed into heap
Resolve(cfg, heap) ==
    [k \in DOMAIN cfg |-> IF k = "selected_modules" THEN heap[cfg[k]] ELSE cfg[k]]

\* the history as a caller reads it through the references
ResolveHistory(hist, entries, heap) ==
    [i \in 1..Len(hist) |->
        [timestamp |-> entries[hist[i]].timestamp,
         config    |-> Resolve(entries[hist[i]].config, heap)]]

\* update_config, lines 131-133: keep the latest HISTORY_LIMIT entries
TruncateHistory_keep_eleven(h) ==
    IF Len(h) > HISTORY_LIMIT + 1
    THEN SubSeq(h, Len(h) - HISTORY_LIMIT, Len(h))
    ELSE h

TruncateHistory_keep_oldest(h) ==
    IF Len(h) > HISTORY_LIMIT THEN SubSeq(h, 1, HISTORY_LIMIT) ELSE h

TruncateHistory(h) ==
    IF Len(h) > HISTORY_LIMIT
    THEN SubSeq(h, Len(h) - HISTORY_LIMIT + 1, Len(h))
    ELSE h

\* update_config, lines 135-138: overwrite the keys of new_config that carry
\* a non-None value and exist in the record
ApplyUpdates_none_resets(cfg, new_config) ==
    [k \in DOMAIN cfg |->
        IF k \in DOMAIN new_config
        THEN IF new_config[k] # None THEN new_config[k][1] ELSE DefaultConfig(1)[k]
        ELSE cfg[k]]

ApplyUpdates_adds_keys(cfg, new_config) ==
    [k \in DOMAIN cfg \cup {j \in DOMAIN new_config : new_config[j] # None} |->
        IF k \in DOMAIN new_config /\ new_config[k] # None
        THEN new_config[k][1]
        ELSE cfg[k]]

ApplyUpdates_on_stale_record(cfg, new_config) ==
    [k \in DOMAIN cfg |->
        IF k \in DOMAIN new_config /\ new_config[k] # None
        THEN new_config[k][1]
        ELSE DefaultConfig(1)[k]]

ApplyUpdates(cfg, new_config) ==
    [k \in DOMAIN cfg |->
        IF k \in DOMAIN new_config /\ new_config[k] # None
        THEN new_config[k][1]
        ELSE cfg[k]]

\* a dict passed under selected_modules enters the heap and the record
\* stores a reference to it
PassByReference(new_config, heap) ==
    [k \in DOMAIN new_config |->
        IF k = "selected_modules" /\ new_config[k] # None
        THEN Some(Len(heap) + 1)
        ELSE new_config[k]]

HeapAfterPass(new_config, heap) ==
    IF "selected_modules" \in DOMAIN new_config /\ new_config["selected_modules"] # None
    THEN Append(heap, new_config["selected_modules"][1])
    ELSE heap

\* ConfigManager.update_config(new_config), lines 124-140
ConfigManager_update_config(new_config) ==
    /\ entry_objs' = Append(entry_objs,
                            [timestamp |-> now, config |-> current_config])
    /\ config_history' = TruncateHistory(Append(config_history, Len(entry_objs) + 1))
    /\ module_objs' = HeapAfterPass(new_config, module_objs)
    /\ current_config' = ApplyUpdates(current_config,
                                      PassByReference(new_config, module_objs))
    /\ updates' = updates + 1
    /\ last_update' = new_config
    /\ prev_update' = last_update
    /\ updLog' = Append(updLog, Resolve(current_config, module_objs))

\* ConfigManager.get_config(), line 143: a shallow copy of the record
ConfigManager_get_config == current_config

\* ConfigManager.get_history(), line 146: a shallow copy of the list
ConfigManager_get_history == config_history

----------------------------------------------------------------------------
(* Inputs *)

\* a dict with no key
EmptyPartial == [k \in {} |-> None]

\* arguments of direct ConfigManager.update_config calls
PartialNullVae == [sd_vae |-> None, default_width |-> Some(1024)]
PartialUnknownKey == [default_prompt |-> Some("masterpiece")]
Partials == {EmptyPartial, PartialNullVae, PartialUnknownKey}

\* arguments of the updates that follow the freely drawn ones under SpecStore
LatePartials == {EmptyPartial, [default_steps |-> Some(30)]}

\* JSON bodies of POST /config: the fields the body supplies
BodyNumbers ==
    [default_width |-> Some(1024), default_height |-> Some(768),
     default_cfg_scale |-> Some(9), default_steps |-> Some(30),
     default_batch_size |-> Some(2), default_batch_count |-> Some(2),
     dynamic_prompts_enabled |-> Some(TRUE)]
BodyModel == [sd_model_checkpoint |-> Some("flux1-dev.safetensors"), sd_vae |-> Some("None")]
BodyModules == [selected_modules |-> Some(FluxModules), dynamic_prompts_enabled |-> Some(TRUE)]
BodyNulls == [sd_model_checkpoint |-> None, sd_vae |-> None]
Bodies == {EmptyPartial, BodyNumbers, BodyModel, BodyModules, BodyNulls}

\* JSON bodies of POST /get_image: the fields the body supplies
ImageBodyPromptOnly == [japanese_prompt |-> <<"neko ga suwatte iru">>]
ImageBodyExplicit ==
    [japanese_prompt |-> <<"neko ga suwatte iru">>, negative_prompt |-> <<"blurry">>,
     width |-> 768, height |-> 640, cfg_scale |-> 5, steps |-> 28,
     batch_size |-> 3, batch_count |-> 4, dynamic_prompts |-> TRUE,
     model |-> "llama3:8b",
     selected_model |-> Some("flux1-dev.safetensors"),
     selected_vae |-> Some("ae.safetensors"),
     selected_text_encoder |-> Some("t5xxl_fp16.safetensors"),
     selected_unet |-> Some("flux1-dev-unet.safetensors")]
ImageBodyZeros ==
    [japanese_prompt |-> <<"neko ga suwatte iru">>,
     width |-> 0, height |-> 0, cfg_scale |-> 0, steps |-> 0,
     batch_size |-> 0, batch_count |-> 0, dynamic_prompts |-> FALSE]
ImageBodies == {ImageBodyPromptOnly, ImageBodyExplicit, ImageBodyZeros}

\* what the Ollama client does
TranslateOutcomes ==
    {[kind |-> "response",
      response |-> <<" ", "cat", ",", " ", "Cat", ",", ",", "sitting", "\n">>],
     [kind |-> "ResponseError", message |-> <<"model not found">>]}

\* images the backend returns, base64 encoded
Base64Image(k) == [bytes |-> k]
ImageList(n) == [k \in 1..n |-> Base64Image(k)]

\* what the image backend does with POST /sdapi/v1/txt2img
GenerateOutcomes ==
    {[kind |-> "response", status_code |-> 200,
      json |-> [images |-> ImageList(n), info |-> "{}"]] : n \in {0, MaxImages}}
    \cup {[kind |-> "response", status_code |-> 200, json |-> [info |-> "{}"]],
          [kind |-> "response", status_code |-> 400, text |-> <<"bad request">>],
          [kind |-> "Timeout", message |-> <<"Read timed out. (read timeout=600)">>],
          [kind |-> "ConnectionError", message |-> <<"Connection refused">>]}

\* what the file system does with a write under SAVE_DIR
SaveOutcomes ==
    {[kind |-> "written"],
     [kind |-> "PermissionError", message |-> "[Errno 13] Permission denied: "]}

\* texts given to the prompt combiner: every text of at most MaxTextLen
\* tokens over a small alphabet, and two longer ones
CombineAlphabet == {"a", "A", ",", " "}
CombineTexts ==
    UNION {[1..n -> CombineAlphabet] : n \in 0..MaxTextLen}
    \cup {<<"A", ",", " ", "b">>, <<"a", ",", " ", "B", ",", " ", "c">>}

\* configuration files the process may find on disk when it starts: none, a
\* file written before dynamic_prompts_enabled existed, a complete file, a
\* file that cannot be parsed
PersistedWithoutDynamicPrompts ==
    [sd_model_checkpoint |-> "flux1-dev.safetensors",
     sd_vae              |-> "None",
     selected_modules    |-> EmptyDict,
     default_width       |-> 1024,
     default_height      |-> 768,
     default_cfg_scale   |-> 9,
     default_steps       |-> 30,
     default_batch_size  |-> 2,
     default_batch_count |-> 2]
PersistedComplete ==
    [k \in DOMAIN PersistedWithoutDynamicPrompts \cup {"dynamic_prompts_enabled"} |->
        IF k = "dynamic_prompts_enabled" THEN TRUE
        ELSE PersistedWithoutDynamicPrompts[k]]
ConfigFiles ==
    {NoFile,
     [exists |-> TRUE, parses |-> TRUE, current_config |-> PersistedWithoutDynamicPrompts],
     [exists |-> TRUE, parses |-> TRUE, current_config |-> PersistedComplete],
     [exists |-> TRUE, parses |-> FALSE]}

\* how the image backend answers POST /sdapi/v1/options
OptionsOutcomes == {"200", "500", "Timeout", "ConnectionError"}

----------------------------------------------------------------------------
(* POST /config *)

\* class ConfigUpdateRequest: the declared default of each field
ConfigUpdateRequest_defaults ==
    [sd_model_checkpoint     |-> Some(DEFAULT_FORGE_MODEL),
     sd_vae                  |-> None,
     selected_modules        |-> None,
     default_width           |-> None,
     default_height          |-> None,
     default_cfg_scale       |-> None,
     default_steps           |-> None,
     default_batch_size      |-> None,
     default_batch_count     |-> None,
     dynamic_prompts_enabled |-> None]

\* pydantic builds the request: a field the body lacks takes its declared
\* default, a key the class does not declare is ignored
ConfigUpdateRequest(body) ==
    [f \in DOMAIN ConfigUpdateRequest_defaults |->
        IF f \in DOMAIN body THEN body[f] ELSE ConfigUpdateRequest_defaults[f]]

\* Python truth value of an Optional[str]
TruthyStr(o) == o # None /\ o[1] # ""

\* update_config (POST /config), lines 711-717: what is sent to the backend
forge_updates(request) ==
    [f \in {g \in {"sd_model_checkpoint", "sd_vae"} : TruthyStr(request[g])} |->
        request[f][1]]

\* update_config (POST /config), lines 733-736: the non-None fields
update_data(request) ==
    [f \in {g \in DOMAIN request : request[g] # None} |-> request[f]]

\* POST /config, lines 707-743; outcome is the backend's answer to the
\* forwarded options, which is only logged
update_config_forward_failure_raises(body, outcome) ==
    LET request == ConfigUpdateRequest(body)
        sent    == forge_updates(request)
    IN IF DOMAIN sent # {} /\ outcome # "200"
       THEN /\ last_post' = [update_no     |-> updates,
                             body          |-> body,
                             forge_updates |-> sent,
                             forge_result  |-> outcome,
                             status_code   |-> 500,
                             updated_config |-> NoValue]
            /\ UNCHANGED <<current_config, config_history, entry_objs, module_objs,
                           updates, last_update, updLog, now, held_config,
                           held_history, str_shows_detail, req, requests, disk,
                           mutations,
                           last_get, last_reset, config_file, combined,
                           prev_update, last_proxy>>
       ELSE /\ ConfigManager_update_config(update_data(request))
            /\ last_post' = [update_no     |-> updates',
                             body          |-> body,
                             forge_updates |-> IF DOMAIN sent # {} THEN sent ELSE NoValue,
                             forge_result  |-> IF DOMAIN sent # {} THEN outcome
                                                                  ELSE "not called",
                             status_code   |-> 200,
                             updated_config |-> Resolve(current_config', module_objs')]
            /\ UNCHANGED <<now, held_config, held_history, str_shows_detail, req,
                           requests, disk, mutations,
                           last_get, last_reset, config_file, combined,
                           last_proxy>>

update_config(body, outcome) ==
    LET request == ConfigUpdateRequest(body)
        sent    == forge_updates(request)
    IN /\ ConfigManager_update_config(update_data(request))
       /\ last_post' = [update_no     |-> updates',
                        body          |-> body,
                        forge_updates |-> IF DOMAIN sent # {} THEN sent ELSE NoValue,
                        forge_result  |-> IF DOMAIN sent # {} THEN outcome ELSE "not called",
                        status_code   |-> 200,
                        updated_config |-> Resolve(current_config', module_objs')]
       /\ UNCHANGED <<now, held_config, held_history, str_shows_detail, req, requests,
                      disk, mutations,
                      last_get, last_reset, config_file, combined,
                      last_proxy>>

\* a direct call of the store's update_config, as a test or a library user makes
CallUpdateConfig(new_config) ==
    /\ ConfigManager_update_config(new_config)
    /\ UNCHANGED <<now, last_post, held_config, held_history, str_shows_detail,
                   req, requests, disk, mutations,
                   last_get, last_reset, config_file, combined,
                   last_proxy>>

\* the clock advances
Tick ==
    /\ now < MaxClock
    /\ now' = now + 1
    /\ UNCHANGED <<current_config, config_history, entry_objs, module_objs, updates,
                   last_update, updLog, last_post, held_config, held_history,
                   str_shows_detail, req, requests, disk, mutations,
                   last_get, last_reset, config_file, combined,
                   prev_update, last_proxy>>

----------------------------------------------------------------------------
(* Exceptions and text *)

\* texts are sequences of tokens; a detail contains "timeout" when one of
\* its tokens does
Text(t) == <<t>>
TimeoutTokens == {"Image generation timeout", "Request timeout"}
ContainsTimeout(text) == \E i \in 1..Len(text) : text[i] \in TimeoutTokens

\* str.strip(): drop the whitespace tokens at both ends
Whitespace == {" ", "\n"}
RECURSIVE lstrip(_)
lstrip(t) == IF t # << >> /\ Head(t) \in Whitespace THEN lstrip(Tail(t)) ELSE t
RECURSIVE rstrip(_)
rstrip(t) ==
    IF t # << >> /\ t[Len(t)] \in Whitespace THEN rstrip(SubSeq(t, 1, Len(t) - 1)) ELSE t
strip(t) == rstrip(lstrip(t))

HTTPException(status_code, detail) ==
    [type |-> "HTTPException", status_code |-> status_code, detail |-> detail]
PyException(type, message) ==
    [type |-> type, status_code |-> 0, detail |-> message]

\* str(e): the message of a Python exception; of an HTTPException either
\* "<status>: <detail>" (shows) or the empty string, as the installed
\* starlette has it
str(e, shows) ==
    IF e.type = "HTTPException"
    THEN IF shows
         THEN <<ToString(e.status_code), ": ">> \o e.detail
         ELSE << >>
    ELSE e.detail

Return(v) == [raised |-> FALSE, value |-> v]
Raise(e) == [raised |-> TRUE, exc |-> e]

----------------------------------------------------------------------------
(* Prompt Combiner: combine(defaultText, userText) -> mergedText *)

\* the lower-case form of the tokens that have an upper-case letter
LowerOf == ("A" :> "a") @@ ("B" :> "b") @@ ("C" :> "c") @@ ("Cat" :> "cat")
lower(token) == IF token \in DOMAIN LowerOf THEN LowerOf[token] ELSE token

\* the case-insensitive key of a tag
TagKey(tag) == [i \in 1..Len(tag) |-> lower(tag[i])]

\* the tokens of a text that are not the empty string
NonEmptyTokens(text) == SelectSeq(text, LAMBDA token : token # "")

\* split on commas: the runs of tokens between the "," tokens
RECURSIVE split(_)
split(text) ==
    IF \E i \in 1..Len(text) : text[i] = ","
    THEN LET c == CHOOSE i \in 1..Len(text) :
                      text[i] = "," /\ \A j \in 1..(i - 1) : text[j] # ","
         IN <<SubSeq(text, 1, c - 1)>> \o split(SubSeq(text, c + 1, Len(text)))
    ELSE <<text>>

\* trim every tag and drop the empty ones
RECURSIVE trimmed_tags(_)
trimmed_tags(tags) ==
    IF tags = << >> THEN << >>
    ELSE LET tag == strip(Head(tags))
         IN (IF tag = << >> THEN << >> ELSE <<tag>>) \o trimmed_tags(Tail(tags))

RECURSIVE deduplicate_keeps_last(_, _)
deduplicate_keeps_last(tags, seen) ==
    IF tags = << >> THEN << >>
    ELSE IF \E k \in 2..Len(tags) : TagKey(tags[k]) = TagKey(Head(tags))
         THEN deduplicate_keeps_last(Tail(tags), seen)
         ELSE <<Head(tags)>> \o deduplicate_keeps_last(Tail(tags), seen)

\* keep the first tag of every case-insensitive key, in order; seen holds
\* the keys of the tags kept so far
RECURSIVE deduplicate(_, _)
deduplicate(tags, seen) ==
    IF tags = << >> THEN << >>
    ELSE IF TagKey(Head(tags)) \in seen
         THEN deduplicate(Tail(tags), seen)
         ELSE <<Head(tags)>> \o deduplicate(Tail(tags), seen \cup {TagKey(Head(tags))})

\* join with ", "
RECURSIVE join(_)
join(tags) ==
    IF tags = << >> THEN << >>
    ELSE IF Len(tags) = 1 THEN Head(tags)
    ELSE Head(tags) \o <<",", " ">> \o join(Tail(tags))

\* combine(defaultText, userText): concatenate with a comma, split on
\* commas, trim, drop empty tags, deduplicate, join
combine(defaultText, userText) ==
    join(deduplicate(trimmed_tags(split(NonEmptyTokens(defaultText) \o <<",">>
                                           \o NonEmptyTokens(userText))),
                     {}))

----------------------------------------------------------------------------
(* POST /get_image *)

DEFAULT_TRANSLATE_MODEL == "brxce/stable-diffusion-prompt-generator:latest"
SAVE_DIR == "/app/images"

\* class GetImageRequest: the declared default of each field
GetImageRequest_defaults ==
    [japanese_prompt       |-> Text(""),
     negative_prompt       |-> Text(""),
     model                 |-> DEFAULT_FORGE_MODEL,
     width                 |-> 512,
     height                |-> 512,
     cfg_scale             |-> 7,
     steps                 |-> 20,
     batch_size            |-> 1,
     batch_count           |-> 1,
     selected_model        |-> None,
     selected_vae          |-> None,
     selected_text_encoder |-> None,
     selected_unet         |-> None,
     dynamic_prompts       |-> FALSE]

\* pydantic builds the request: a field the body lacks takes its declared default
GetImageRequest(body) ==
    [f \in DOMAIN GetImageRequest_defaults |->
        IF f \in DOMAIN body THEN body[f] ELSE GetImageRequest_defaults[f]]

\* Python's "a or b" on numbers and on booleans
OrNumber_keeps_zero(a, b) == a

OrNumber(a, b) == IF a # 0 THEN a ELSE b
OrBool(a, b) == IF a THEN a ELSE b

\* dict.get(key, default)
Get(d, key, default) == IF key \in DOMAIN d THEN d[key] ELSE default

translate_japanese_prompt_without_strip(japanese_text, model, outcome) ==
    IF outcome.kind = "response"
    THEN Return(outcome.response)
    ELSE Raise(HTTPException(500, <<"Translation error: ">> \o
                                  str(PyException(outcome.kind, outcome.message), FALSE)))

translate_japanese_prompt_keeps_source_text(japanese_text, model, outcome) ==
    IF outcome.kind = "response"
    THEN [raised |-> FALSE, value |-> strip(outcome.response)]
    ELSE [raised |-> FALSE, value |-> japanese_text]

\* translate_japanese_prompt, lines 222-241; outcome is what the Ollama
\* client does: it returns a response text or raises
translate_japanese_prompt(japanese_text, model, outcome) ==
    IF outcome.kind = "response"
    THEN Return(strip(outcome.response))
    ELSE Raise(HTTPException(500, <<"Translation error: ">> \o
                                  str(PyException(outcome.kind, outcome.message), FALSE)))

\* get_image, lines 646-655: request value if truthy, else the configuration's
merge_params(request, config) ==
    [negative_prompt |-> request.negative_prompt,
     width           |-> OrNumber(request.width, Get(config, "default_width", 512)),
     height          |-> OrNumber(request.height, Get(config, "default_height", 512)),
     cfg_scale       |-> OrNumber(request.cfg_scale, Get(config, "default_cfg_scale", 7)),
     steps           |-> OrNumber(request.steps, Get(config, "default_steps", 20)),
     batch_size      |-> OrNumber(request.batch_size, Get(config, "default_batch_size", 1)),
     batch_count     |-> OrNumber(request.batch_count, Get(config, "default_batch_count", 1)),
     dynamic_prompts |-> OrBool(request.dynamic_prompts,
                                Get(config, "dynamic_prompts_enabled", FALSE))]

\* generate_image_with_forge, lines 247-267: the JSON sent to txt2img
build_forge_params(prompt, params) ==
    [prompt          |-> prompt,
     negative_prompt |-> Get(params, "negative_prompt", Text("")),
     width           |-> Get(params, "width", 512),
     height          |-> Get(params, "height", 512),
     cfg_scale       |-> Get(params, "cfg_scale", 7),
     steps           |-> Get(params, "steps", 20),
     batch_size      |-> Get(params, "batch_size", 1),
     n_iter          |-> Get(params, "batch_count", 1),
     sampler_name    |-> "Euler a",
     save_images     |-> FALSE,
     send_images     |-> TRUE,
     alwayson_scripts |-> IF Get(params, "dynamic_prompts", FALSE)
                          THEN {"Dynamic Prompts"} ELSE {}]

\* generate_image_with_forge, lines 270-290: what the function makes of the
\* backend's answer.  The HTTPException raised for a non-200 answer is raised
\* inside the try block, so the handler "except Exception" of the same
\* function catches it.
forge_result(outcome, shows) ==
    IF outcome.kind = "response"
    THEN IF outcome.status_code = 200
         THEN Return(outcome.json)
         ELSE Raise(HTTPException(500, <<"Image generation error: ">> \o
                        str(HTTPException(outcome.status_code,
                                          <<"Forge API error: ">> \o outcome.text),
                            shows)))
    ELSE IF outcome.kind = "Timeout"
         THEN Raise(HTTPException(504, Text("Image generation timeout")))
         ELSE Raise(HTTPException(500, <<"Image generation error: ">> \o
                        str(PyException(outcome.kind, outcome.message), shows)))

\* get_image, lines 683-685: every exception raised in the handler's body,
\* the HTTPExceptions of the helpers included, is caught and answered as 500
get_image_except_lists_written(e, shows) ==
    [status_code |-> 500,
     detail |-> <<"Image generation failed: ">> \o str(e, shows) \o req.written]

get_image_except(e, shows) ==
    [status_code |-> 500, detail |-> <<"Image generation failed: ">> \o str(e, shows)]

\* "{i:03d}": at least three decimal digits
Format03d(i) ==
    IF i < 10 THEN "00" \o ToString(i)
    ELSE IF i < 100 THEN "0" \o ToString(i)
    ELSE ToString(i)

\* strftime("%Y%m%d_%H%M%S"): the clock value to the second
strftime(t) == ToString(t)

\* get_image, line 665
image_filename_one_based(timestamp, i) ==
    "generated_" \o timestamp \o "_" \o Format03d(i + 1) \o ".png"

image_filename(timestamp, i) ==
    "generated_" \o timestamp \o "_" \o Format03d(i) \o ".png"

\* save_image_to_nas, line 299: os.path.join(SAVE_DIR, filename)
image_filepath(filename) == SAVE_DIR \o "/" \o filename

\* base64.b64decode of an image the backend returned
b64decode(image_base64) == image_base64.bytes

\* save_image_to_nas, lines 292-310; outcome is what the file system does
\* when the file is opened and written
save_image_to_nas(image_base64, filename, outcome) ==
    IF outcome.kind = "written"
    THEN Return(image_filepath(filename))
    ELSE Raise(HTTPException(500, <<"Error saving image: ">> \o
                  str(PyException(outcome.kind,
                                  <<outcome.message, SAVE_DIR, "/" \o filename>>),
                      FALSE)))

\* get_image, lines 670-681: the result returned on success
get_image_result(request, translated_prompt, forge_response, saved_files, params, t) ==
    [status_code |-> 200,
     body |-> [translated_prompt |-> translated_prompt,
               images          |-> Get(forge_response, "images", << >>),
               saved_files     |-> saved_files,
               parameters      |-> params,
               info            |-> Get(forge_response, "info", ""),
               generation_info |-> [original_prompt   |-> request.japanese_prompt,
                                    translated_prompt |-> translated_prompt,
                                    timestamp         |-> t]]]

\* no request received yet
NoRequest ==
    [pc                |-> "idle",
     body              |-> NoValue,
     request           |-> NoValue,
     translate_outcome |-> "not called",
     ollama_model      |-> NoValue,
     ollama_response   |-> NoValue,
     translated_prompt |-> NoValue,
     current_config    |-> NoValue,
     params            |-> NoValue,
     generate_calls    |-> 0,
     forge_params      |-> NoValue,
     forge_outcome     |-> NoValue,
     forge_response    |-> NoValue,
     i                 |-> 0,
     saved_files       |-> << >>,
     written           |-> << >>,
     response          |-> NoValue]

\* the event loop runs one handler at a time: no handler of this file awaits
\* anything that suspends it
LoopFree == req.pc \in {"idle", "Completed", "Failed"}

StoreUnchanged ==
    UNCHANGED <<current_config, config_history, entry_objs, module_objs, updates,
                last_update, updLog, last_post, held_config, held_history,
                mutations,
                prev_update>>

\* the handler fails with an exception whose str() the answer shows: from
\* then on the behaviour of str() is known
StrKnown(shows) ==
    /\ str_shows_detail \in {"unknown", IF shows THEN "yes" ELSE "no"}
    /\ str_shows_detail' = IF shows THEN "yes" ELSE "no"

\* get_image, lines 635-639: the request is received
get_image_receive(body) ==
    /\ LoopFree
    /\ req' = [NoRequest EXCEPT !.pc = "translate", !.body = body,
                                !.request = GetImageRequest(body)]
    /\ requests' = requests + 1
    /\ UNCHANGED <<now, disk, str_shows_detail,
                   last_get, last_reset, config_file, combined,
                   last_proxy>>
    /\ StoreUnchanged

\* get_image, line 640
get_image_translate_continues_on_error(outcome, shows) ==
    /\ req.pc = "translate"
    /\ LET r == translate_japanese_prompt(req.request.japanese_prompt,
                                          req.request.model, outcome)
       IN IF r.raised
          THEN /\ req' = [req EXCEPT !.pc = "merge",
                                     !.translate_outcome = outcome.kind,
                                     !.ollama_model = req.request.model,
                                     !.translated_prompt = req.request.japanese_prompt]
               /\ StrKnown(shows)
          ELSE /\ req' = [req EXCEPT !.pc = "merge",
                                     !.translate_outcome = outcome.kind,
                                     !.ollama_model = req.request.model,
                                     !.ollama_response = Get(outcome, "response", NoValue),
                                     !.translated_prompt = r.value]
               /\ UNCHANGED str_shows_detail
    /\ UNCHANGED <<now, disk, requests,
                   last_get, last_reset, config_file, combined,
                   last_proxy>>
    /\ StoreUnchanged

get_image_translate(outcome, shows) ==
    /\ req.pc = "translate"
    /\ LET r == translate_japanese_prompt(req.request.japanese_prompt,
                                          req.request.model, outcome)
       IN IF r.raised
          THEN /\ req' = [req EXCEPT !.pc = "Failed",
                                     !.translate_outcome = outcome.kind,
                                     !.ollama_model = req.request.model,
                                     !.response = get_image_except(r.exc, shows)]
               /\ StrKnown(shows)
          ELSE /\ req' = [req EXCEPT !.pc = "merge",
                                     !.translate_outcome = outcome.kind,
                                     !.ollama_model = req.request.model,
                                     !.ollama_response = Get(outcome, "response", NoValue),
                                     !.translated_prompt = r.value]
               /\ UNCHANGED str_shows_detail
    /\ UNCHANGED <<now, disk, requests,
                   last_get, last_reset, config_file, combined,
                   last_proxy>>
    /\ StoreUnchanged

\* get_image, lines 643-655
get_image_merge_stores_params ==
    /\ req.pc = "merge"
    /\ LET config == ConfigManager_get_config
       IN req' = [req EXCEPT !.pc = "generate",
                             !.current_config = config,
                             !.params = merge_params(req.request, config)]
    /\ ConfigManager_update_config([default_width |-> Some(req.request.width)])
    /\ UNCHANGED <<now, disk, requests, str_shows_detail,
                   last_get, last_reset, config_file, combined,
                   last_proxy, last_post, held_config, held_history, mutations>>

get_image_merge ==
    /\ req.pc = "merge"
    /\ LET config == ConfigManager_get_config
       IN req' = [req EXCEPT !.pc = "generate",
                             !.current_config = config,
                             !.params = merge_params(req.request, config)]
    /\ UNCHANGED <<now, disk, requests, str_shows_detail,
                   last_get, last_reset, config_file, combined,
                   last_proxy>>
    /\ StoreUnchanged

\* get_image, line 658 and lines 661-662
get_image_generate(outcome, shows) ==
    /\ req.pc = "generate"
    /\ LET sent == build_forge_params(req.translated_prompt, req.params)
           r    == forge_result(outcome, shows)
           called == [req EXCEPT !.generate_calls = @ + 1,
                                 !.forge_params = sent,
                                 !.forge_outcome = outcome]
       IN IF r.raised
          THEN /\ req' = [called EXCEPT !.pc = "Failed",
                                        !.response = get_image_except(r.exc, shows)]
               /\ StrKnown(shows)
          ELSE /\ req' = [called EXCEPT
                            !.pc = IF "images" \in DOMAIN r.value /\ r.value.images # << >>
                                   THEN "persist" ELSE "respond",
                            !.forge_response = r.value]
               /\ UNCHANGED str_shows_detail
    /\ UNCHANGED <<now, disk, requests,
                   last_get, last_reset, config_file, combined,
                   last_proxy>>
    /\ StoreUnchanged

\* get_image, lines 663-667: one turn of the loop over the returned images
get_image_persist_removes_written(outcome, shows) ==
    /\ req.pc = "persist"
    /\ LET image    == req.forge_response.images[req.i + 1]
           filename == image_filename(strftime(now), req.i)
           r        == save_image_to_nas(image, filename, outcome)
       IN IF r.raised
          THEN /\ req' = [req EXCEPT !.pc = "Failed",
                                     !.response = get_image_except(r.exc, shows)]
               /\ disk' = {f \in disk :
                                   \A n \in 1..Len(req.written) : f.path # req.written[n]}
               /\ StrKnown(shows)
          ELSE /\ req' = [req EXCEPT
                            !.pc = IF req.i + 1 < Len(req.forge_response.images)
                                   THEN "persist" ELSE "respond",
                            !.i = @ + 1,
                            !.saved_files = Append(@, r.value),
                            !.written = Append(@, r.value)]
               /\ disk' = {f \in disk : f.path # r.value}
                            \cup {[path |-> r.value, data |-> b64decode(image)]}
               /\ UNCHANGED str_shows_detail
    /\ UNCHANGED <<now, requests,
                   last_get, last_reset, config_file, combined,
                   last_proxy>>
    /\ StoreUnchanged

get_image_persist(outcome, shows) ==
    /\ req.pc = "persist"
    /\ LET image    == req.forge_response.images[req.i + 1]
           filename == image_filename(strftime(now), req.i)
           r        == save_image_to_nas(image, filename, outcome)
       IN IF r.raised
          THEN /\ req' = [req EXCEPT !.pc = "Failed",
                                     !.response = get_image_except(r.exc, shows)]
               /\ disk' = disk
               /\ StrKnown(shows)
          ELSE /\ req' = [req EXCEPT
                            !.pc = IF req.i + 1 < Len(req.forge_response.images)
                                   THEN "persist" ELSE "respond",
                            !.i = @ + 1,
                            !.saved_files = Append(@, r.value),
                            !.written = Append(@, r.value)]
               /\ disk' = {f \in disk : f.path # r.value}
                            \cup {[path |-> r.value, data |-> b64decode(image)]}
               /\ UNCHANGED str_shows_detail
    /\ UNCHANGED <<now, requests,
                   last_get, last_reset, config_file, combined,
                   last_proxy>>
    /\ StoreUnchanged

\* get_image, lines 670-681
get_image_respond_rereads_config ==
    /\ req.pc = "respond"
    /\ req' = [req EXCEPT !.pc = "Completed",
                          !.response = get_image_result(req.request, req.translated_prompt,
                                                        req.forge_response, req.saved_files,
                                                        merge_params(req.request,
                                                                     ConfigManager_get_config),
                                                        now)]
    /\ UNCHANGED <<now, disk, requests, str_shows_detail,
                   last_get, last_reset, config_file, combined,
                   last_proxy>>
    /\ StoreUnchanged

get_image_respond ==
    /\ req.pc = "respond"
    /\ req' = [req EXCEPT !.pc = "Completed",
                          !.response = get_image_result(req.request, req.translated_prompt,
                                                        req.forge_response, req.saved_files,
                                                        req.params, now)]
    /\ UNCHANGED <<now, disk, requests, str_shows_detail,
                   last_get, last_reset, config_file, combined,
                   last_proxy>>
    /\ StoreUnchanged

----------------------------------------------------------------------------
(* GET /config *)

\* what the image backend lists
SdModels ==
    <<[title |-> "flux1-dev.safetensors [a1b2]", model_name |-> "flux1-dev"],
      [title |-> "novaAnimeXL_ilV5b.safetensors [c3d4]", model_name |-> "novaAnimeXL"]>>
SdModules == <<[model_name |-> "ae", filename |-> "/models/VAE/ae.safetensors"]>>

\* what the image backend does with GET /sdapi/v1/sd-models
ModelsOutcomes ==
    {[kind |-> "response", status_code |-> 200, json |-> SdModels],
     [kind |-> "response", status_code |-> 200, json |-> <<[model_name |-> "flux1-dev"]>>],
     [kind |-> "response", status_code |-> 500],
     [kind |-> "ConnectionError", message |-> <<"Connection refused">>]}

\* what the image backend does with GET /sdapi/v1/options
VaesOutcomes ==
    {[kind |-> "response", status_code |-> 200, json |-> [sd_vae |-> "ae.safetensors"]],
     [kind |-> "response", status_code |-> 500],
     [kind |-> "Timeout", message |-> <<"Read timed out. (read timeout=10)">>]}

\* what the image backend does with GET /sdapi/v1/sd-modules
ModulesOutcomes ==
    {[kind |-> "response", status_code |-> 200, json |-> SdModules],
     [kind |-> "response", status_code |-> 404],
     [kind |-> "Timeout", message |-> <<"Read timed out. (read timeout=10)">>]}

\* the call raised, or the backend answered with a status other than 200
EnrichmentFailed(outcome) ==
    outcome.kind # "response" \/ outcome.status_code # 200

\* get_forge_models, lines 180-192; a KeyError of model["title"] is caught
\* like every other exception
get_forge_models_propagates(outcome) ==
    IF outcome.kind = "response"
    THEN IF outcome.status_code = 200
         THEN IF \A i \in 1..Len(outcome.json) : "title" \in DOMAIN outcome.json[i]
              THEN Return([i \in 1..Len(outcome.json) |-> outcome.json[i].title])
              ELSE Raise(PyException("KeyError", <<"'title'">>))
         ELSE Return(<< >>)
    ELSE Raise(PyException(outcome.kind, outcome.message))

get_forge_models(outcome) ==
    IF outcome.kind = "response"
    THEN IF outcome.status_code = 200
         THEN IF \A i \in 1..Len(outcome.json) : "title" \in DOMAIN outcome.json[i]
              THEN Return([i \in 1..Len(outcome.json) |-> outcome.json[i].title])
              ELSE Return(<< >>)
         ELSE Return(<< >>)
    ELSE Return(<< >>)

\* get_forge_vaes, lines 194-206: the same two choices on every path
get_forge_vaes(outcome) ==
    IF outcome.kind = "response"
    THEN IF outcome.status_code = 200
         THEN Return(<<"Automatic", "None">>)
         ELSE Return(<<"Automatic", "None">>)
    ELSE Return(<<"Automatic", "None">>)

\* get_forge_modules, lines 208-220
get_forge_modules(outcome) ==
    IF outcome.kind = "response"
    THEN IF outcome.status_code = 200
         THEN IF \A i \in 1..Len(outcome.json) :
                     {"model_name", "filename"} \subseteq DOMAIN outcome.json[i]
              THEN Return([i \in 1..Len(outcome.json) |->
                              [model_name |-> outcome.json[i].model_name,
                               filename   |-> outcome.json[i].filename]])
              ELSE Return(<< >>)
         ELSE Return(<< >>)
    ELSE Return(<< >>)

\* GET /config, lines 688-704: the answer; an exception of a step is caught
\* by the handler's except and answered as 500
get_config_response(models, vaes, modules) ==
    LET available_models  == get_forge_models(models)
        available_vaes    == get_forge_vaes(vaes)
        available_modules == get_forge_modules(modules)
        raised == {r \in {available_models, available_vaes, available_modules} :
                      r.raised}
    IN IF raised = {}
       THEN [status_code |-> 200,
             current_config    |-> Resolve(ConfigManager_get_config, module_objs),
             available_models  |-> available_models.value,
             available_vaes    |-> available_vaes.value,
             available_modules |-> available_modules.value,
             config_history    |-> ResolveHistory(ConfigManager_get_history,
                                                  entry_objs, module_objs)]
       ELSE [status_code |-> 500,
             detail |-> <<"Config retrieval failed: ">>
                            \o str((CHOOSE r \in raised : TRUE).exc, TRUE)]

\* GET /config
get_config(models, vaes, modules) ==
    /\ last_get' = [models   |-> models,
                    vaes     |-> vaes,
                    modules  |-> modules,
                    response |-> get_config_response(models, vaes, modules)]
    /\ UNCHANGED <<current_config, config_history, entry_objs, module_objs, now,
                   updates, last_update, updLog, last_post, held_config,
                   held_history, str_shows_detail, req, requests, disk, mutations,
                   last_reset, config_file, combined,
                   prev_update, last_proxy>>

----------------------------------------------------------------------------
(* forge_proxy.py: the passthrough endpoints of forge_router (prefix /sd) *)

\* JSON bodies a client posts to a passthrough endpoint
ProxyBodies ==
    {[prompt |-> <<"cat">>],
     [prompt |-> <<"cat">>, negative_prompt |-> <<"blurry">>],
     [prompt |-> <<"cat">>, steps |-> 20, width |-> 512, init_images |-> ImageList(1)]}

\* what the image backend does with a forwarded request
ProxyOutcomes ==
    {[kind |-> "response", status_code |-> 200,
      json |-> [images |-> ImageList(1), info |-> "{}"]],
     [kind |-> "response", status_code |-> 400, text |-> <<"bad request">>],
     [kind |-> "response", status_code |-> 503, text |-> <<"busy">>],
     [kind |-> "Timeout", message |-> <<"Read timed out.">>],
     [kind |-> "ConnectionError", message |-> <<"Connection refused">>]}

\* the handlers' "except Exception", e.g. lines 60-62: every exception but
\* the ones an earlier clause took is answered as 500
proxy_except(e, shows) ==
    Raise(HTTPException(500, <<"Proxy error: ">> \o str(e, shows)))

\* the try block of a passthrough handler, e.g. lines 45-56: the backend's
\* JSON on 200, else an HTTPException with the backend's status, raised
\* inside the try block
proxy_try(outcome) ==
    IF outcome.kind = "response"
    THEN IF outcome.status_code = 200
         THEN Return(outcome.json)
         ELSE Raise(HTTPException(outcome.status_code,
                                  <<"Forge API error: ">> \o outcome.text))
    ELSE Raise(PyException(outcome.kind, outcome.message))

\* proxy_txt2img, lines 45-62
proxy_txt2img(request, outcome, shows) ==
    LET r == proxy_try(outcome)
    IN IF ~r.raised THEN r
       ELSE IF r.exc.type = "Timeout"
            THEN Raise(HTTPException(504, Text("Request timeout")))
            ELSE proxy_except(r.exc, shows)

\* proxy_img2img, lines 81-98
proxy_img2img(request, outcome, shows) ==
    LET r == proxy_try(outcome)
    IN IF ~r.raised THEN r
       ELSE IF r.exc.type = "Timeout"
            THEN Raise(HTTPException(504, Text("Request timeout")))
            ELSE proxy_except(r.exc, shows)

\* proxy_get_options, lines 107-120: no clause for a timeout
proxy_get_options(outcome, shows) ==
    LET r == proxy_try(outcome)
    IN IF ~r.raised THEN r ELSE proxy_except(r.exc, shows)

\* no passthrough request asked yet
NoProxy == [request_no |-> 0]

\* the answer FastAPI makes of what a handler returned or raised
Answer(r) ==
    IF r.raised
    THEN [status_code |-> r.exc.status_code, detail |-> r.exc.detail]
    ELSE [status_code |-> 200, body |-> r.value]

\* a passthrough request is handled: what was sent to the backend, what the
\* backend did and what the client is answered
Proxied(endpoint, body, sent, outcome, r, shows) ==
    /\ LoopFree
    /\ last_proxy.request_no < MaxProxied
    /\ last_proxy' = [request_no |-> last_proxy.request_no + 1,
                      endpoint |-> endpoint, body |-> body, sent |-> sent,
                      outcome |-> outcome, response |-> Answer(r)]
    /\ IF outcome.kind = "response" /\ outcome.status_code # 200
       THEN StrKnown(shows)
       ELSE /\ shows = FALSE
            /\ UNCHANGED str_shows_detail
    /\ UNCHANGED <<current_config, config_history, entry_objs, module_objs, now,
                   updates, last_update, updLog, last_post, held_config,
                   held_history, req, requests, disk, mutations,
                   last_get, last_reset, config_file, combined, prev_update>>

\* POST /sd/sdapi/v1/txt2img: requests.post(json=request), line 47
ProxyTxt2img(body, outcome, shows) ==
    Proxied("POST /sd/sdapi/v1/txt2img", body, body, outcome,
            proxy_txt2img(body, outcome, shows), shows)

\* POST /sd/sdapi/v1/img2img: requests.post(json=request), line 83
ProxyImg2img(body, outcome, shows) ==
    Proxied("POST /sd/sdapi/v1/img2img", body, body, outcome,
            proxy_img2img(body, outcome, shows), shows)

\* GET /sd/sdapi/v1/options: no body
ProxyGetOptions(outcome, shows) ==
    Proxied("GET /sd/sdapi/v1/options", NoValue, NoValue, outcome,
            proxy_get_options(outcome, shows), shows)

----------------------------------------------------------------------------
(* Routing, and the settings page's POST /config/reset *)

\* the routes main.py registers: method and path
Routes ==
    {<<"GET", "/favicon.ico">>, <<"GET", "/health">>, <<"GET", "/">>,
     <<"POST", "/translate">>, <<"POST", "/get_image">>,
     <<"GET", "/config">>, <<"POST", "/config">>,
     <<"GET", "/system/info">>, <<"GET", "/images">>,
     <<"GET", "/images/{filename}">>}

\* the router's answer to a request no handler takes: 405 when the path is
\* registered for another method, 404 when it is not registered
unrouted(method, path) ==
    IF \E r \in Routes : r[2] = path
    THEN [status_code |-> 405, detail |-> "Method Not Allowed"]
    ELSE [status_code |-> 404, detail |-> "Not Found"]

\* no POST /config/reset asked yet
NoReset == [request_no |-> 0]

\* web_ui.py resetConfig, lines 296-319: fetch('/config/reset', POST); no
\* route of main.py takes it, the store is not touched
post_config_reset ==
    /\ <<"POST", "/config/reset">> \notin Routes
    /\ last_reset' = [request_no |-> last_reset.request_no + 1,
                      response   |-> unrouted("POST", "/config/reset")]
    /\ UNCHANGED <<current_config, config_history, entry_objs, module_objs, now,
                   updates, last_update, updLog, last_post, held_config,
                   held_history, str_shows_detail, req, requests, disk, mutations,
                   last_get, config_file, combined,
                   prev_update, last_proxy>>

----------------------------------------------------------------------------
(* A library caller of the store, holding what get_config() and            *)
(* get_history() returned and changing it in place                         *)

CallerFrame ==
    UNCHANGED <<current_config, config_history, now, updates, last_update, updLog,
                last_post, str_shows_detail, req, requests, disk,
                last_get, last_reset, config_file, combined,
                prev_update, last_proxy>>

\* cfg = config_manager.get_config()
caller_get_config ==
    /\ LoopFree
    /\ held_config' = Some(ConfigManager_get_config)
    /\ UNCHANGED <<held_history, entry_objs, module_objs, mutations,
                   last_get, last_reset, config_file, combined,
                   last_proxy>>
    /\ CallerFrame

\* hist = config_manager.get_history()
caller_get_history ==
    /\ LoopFree
    /\ held_history' = Some(ConfigManager_get_history)
    /\ UNCHANGED <<held_config, entry_objs, module_objs, mutations,
                   last_get, last_reset, config_file, combined,
                   last_proxy>>
    /\ CallerFrame

\* cfg["sd_vae"] = "tampered": a key of the returned dict
caller_set_key ==
    /\ LoopFree /\ mutations < MaxMutations
    /\ held_config # None
    /\ held_config' = Some([held_config[1] EXCEPT !["sd_vae"] = "tampered"])
    /\ mutations' = mutations + 1
    /\ UNCHANGED <<held_history, entry_objs, module_objs,
                   last_get, last_reset, config_file, combined,
                   last_proxy>>
    /\ CallerFrame

\* cfg["selected_modules"]["unet"] = "tampered": the nested dict, which the
\* returned dict references
caller_set_module ==
    /\ LoopFree /\ mutations < MaxMutations
    /\ held_config # None
    /\ module_objs' = [module_objs EXCEPT ![held_config[1]["selected_modules"]] =
                          {kv \in @ : kv[1] # "unet"} \cup {<<"unet", "tampered">>}]
    /\ mutations' = mutations + 1
    /\ UNCHANGED <<held_config, held_history, entry_objs,
                   last_get, last_reset, config_file, combined,
                   last_proxy>>
    /\ CallerFrame

\* hist.pop(0): the returned list
caller_pop_history ==
    /\ LoopFree /\ mutations < MaxMutations
    /\ held_history # None /\ held_history[1] # << >>
    /\ held_history' = Some(Tail(held_history[1]))
    /\ mutations' = mutations + 1
    /\ UNCHANGED <<held_config, entry_objs, module_objs,
                   last_get, last_reset, config_file, combined,
                   last_proxy>>
    /\ CallerFrame

\* hist[0]["timestamp"] = -1: an entry of the returned list, which the list
\* references
caller_set_entry ==
    /\ LoopFree /\ mutations < MaxMutations
    /\ held_history # None /\ held_history[1] # << >>
    /\ entry_objs' = [entry_objs EXCEPT ![held_history[1][1]].timestamp = -1]
    /\ mutations' = mutations + 1
    /\ UNCHANGED <<held_config, held_history, module_objs,
                   last_get, last_reset, config_file, combined,
                   last_proxy>>
    /\ CallerFrame

----------------------------------------------------------------------------
(* Specifications *)

InitService ==
    /\ module_objs = <<EmptyDict>>
    /\ current_config = DefaultConfig(1)
    /\ config_history = << >>
    /\ entry_objs = << >>
    /\ now = 0
    /\ updates = 0
    /\ last_update = NoValue
    /\ updLog = << >>
    /\ last_post = NoValue
    /\ held_config = None
    /\ held_history = None
    /\ str_shows_detail = "unknown"
    /\ req = NoRequest
    /\ requests = 0
    /\ disk = {}
    /\ mutations = 0
    /\ last_get = NoValue
    /\ last_reset = NoReset
    /\ prev_update = NoValue
    /\ last_proxy = NoProxy

Init ==
    /\ InitService
    /\ config_file = NoFile
    /\ combined = NoValue

GetImage ==
    \/ requests < MaxRequests /\ \E body \in ImageBodies : get_image_receive(body)
    \/ \E outcome \in TranslateOutcomes, shows \in BOOLEAN :
           get_image_translate(outcome, shows)
    \/ get_image_merge
    \/ \E outcome \in GenerateOutcomes, shows \in BOOLEAN :
           get_image_generate(outcome, shows)
    \/ \E outcome \in SaveOutcomes, shows \in BOOLEAN :
           get_image_persist(outcome, shows)
    \/ get_image_respond

PostConfig(limit, outcomes) ==
    /\ LoopFree
    /\ updates < limit
    /\ \E body \in Bodies, outcome \in outcomes : update_config(body, outcome)

DirectUpdate ==
    /\ LoopFree
    /\ updates < MaxUpdates
    /\ \E p \in Partials : CallUpdateConfig(p)

LateUpdate ==
    /\ LoopFree
    /\ MaxUpdates <= updates
    /\ updates < HistoryRun
    /\ \E p \in LatePartials : CallUpdateConfig(p)

\* the service: its handlers and the clock
Next ==
    \/ PostConfig(MaxPosts, {"200", "Timeout"})
    \/ GetImage
    \/ Tick

Spec == Init /\ [][Next]_vars

\* the store alone, in runs of updates longer than the history cap: MaxUpdates
\* updates with freely drawn arguments, then updates up to HistoryRun
NextStore ==
    \/ PostConfig(MaxUpdates, OptionsOutcomes)
    \/ DirectUpdate
    \/ LateUpdate

SpecStore == Init /\ [][NextStore]_vars

\* the store used as a library: its callers keep and change what it returns
NextCaller ==
    \/ PostConfig(MaxUpdates, OptionsOutcomes)
    \/ DirectUpdate
    \/ caller_get_config
    \/ caller_get_history
    \/ caller_set_key
    \/ caller_set_module
    \/ caller_pop_history
    \/ caller_set_entry

SpecCaller == Init /\ [][NextCaller]_vars

GetConfig ==
    /\ LoopFree
    /\ \E models \in ModelsOutcomes, vaes \in VaesOutcomes, modules \in ModulesOutcomes :
           get_config(models, vaes, modules)

\* the configuration endpoints: POST /config and GET /config
NextConfig ==
    \/ PostConfig(MaxPosts, OptionsOutcomes)
    \/ GetConfig

SpecConfig == Init /\ [][NextConfig]_vars

ConfigReset ==
    /\ LoopFree
    /\ last_reset.request_no < MaxResets
    /\ post_config_reset

\* the settings page: updates of the configuration and resets
NextReset ==
    \/ PostConfig(MaxUpdates, OptionsOutcomes)
    \/ ConfigReset

SpecReset == Init /\ [][NextReset]_vars

\* process start with whatever configuration file is on disk: __init__
\* builds the record from the compiled-in values and reads no file
InitStartup ==
    /\ InitService
    /\ config_file \in ConfigFiles
    /\ combined = NoValue

NextStartup == PostConfig(MaxUpdates, OptionsOutcomes)

SpecStartup == InitStartup /\ [][NextStartup]_vars

\* the prompt combiner applied to two texts
Combine ==
    /\ combined.mergedText = None
    /\ combined' = [combined EXCEPT
                       !.mergedText = Some(combine(combined.defaultText,
                                                   combined.userText))]
    /\ UNCHANGED <<current_config, config_history, entry_objs, module_objs, now,
                   updates, last_update, updLog, last_post, held_config,
                   held_history, str_shows_detail, req, requests, disk, mutations,
                   last_get, last_reset, config_file,
                   prev_update, last_proxy>>

InitCombine ==
    /\ InitService
    /\ config_file = NoFile
    /\ combined \in [defaultText : CombineTexts, userText : CombineTexts,
                      mergedText : {None}]

NextCombine == Combine

SpecCombine == InitCombine /\ [][NextCombine]_vars

\* the backend answers every enrichment call of a GET /config, or none
EnrichmentOutcome(outcomes, answers) ==
    CHOOSE o \in outcomes : IF answers THEN ~EnrichmentFailed(o) ELSE o.kind # "response"

\* the endpoints that read the store, next to the one that writes it
NextReaders ==
    \/ PostConfig(MaxPosts, {"200"})
    \/ GetImage
    \/ /\ LoopFree
       /\ \E answers \in BOOLEAN :
              get_config(EnrichmentOutcome(ModelsOutcomes, answers),
                         EnrichmentOutcome(VaesOutcomes, answers),
                         EnrichmentOutcome(ModulesOutcomes, answers))

SpecReaders == Init /\ [][NextReaders]_vars

\* one more POST /get_image after the freely drawn ones have ended
NextRequest ==
    /\ MaxRequests <= requests
    /\ requests < MaxRequests + 1
    /\ get_image_receive(ImageBodyPromptOnly)

\* requests for images one after the other, and the clock
NextImages ==
    \/ GetImage
    \/ NextRequest
    \/ Tick

SpecImages == Init /\ [][NextImages]_vars

\* a POST /config handled between any two steps of a POST /get_image: more
\* than the event loop allows (see LoopFree), as a server that switched
\* between handlers at their awaits would behave
PostConfigAnytime ==
    /\ updates < MaxPosts
    /\ \E body \in Bodies : update_config(body, "200")

NextInterleaved ==
    \/ PostConfigAnytime
    \/ GetImage

SpecInterleaved == Init /\ [][NextInterleaved]_vars

\* the passthrough endpoints
NextProxy ==
    \/ \E body \in ProxyBodies, outcome \in ProxyOutcomes, shows \in BOOLEAN :
           ProxyTxt2img(body, outcome, shows)
    \/ \E body \in ProxyBodies, outcome \in ProxyOutcomes, shows \in BOOLEAN :
           ProxyImg2img(body, outcome, shows)
    \/ \E outcome \in ProxyOutcomes, shows \in BOOLEAN :
           ProxyGetOptions(outcome, shows)

SpecProxy == Init /\ [][NextProxy]_vars

----------------------------------------------------------------------------
(* Claims about the configuration store *)

StoreConfig == Resolve(current_config, module_objs)
StoreHistory == ResolveHistory(config_history, entry_objs, module_objs)

\* the step is a call of ConfigManager.update_config
IsUpdateStep == updates' = updates + 1

\* C1: after any sequence of update_config calls, whatever their arguments,
\* the configuration history holds at most 10 entries.
C1_HistoryAtMostTen == Len(config_history) <= 10

\* more than 10 updates were made, the latest with an empty partial
C1_Witness ==
    /\ updates > 10
    /\ Len(config_history) = 10
    /\ DOMAIN last_update = {}

\* C2: after n update_config calls the history has min(n, 10) entries, which
\* are, oldest first, the records as they stood immediately before each of
\* the last min(n, 10) updates.
C2_HistoryIsLastSnapshots ==
    LET n == updates
        m == IF n < 10 THEN n ELSE 10
    IN /\ Len(updLog) = n
       /\ Len(config_history) = m
       /\ \A i \in 1..m : StoreHistory[i].config = updLog[n - m + i]

\* entries were evicted and the surviving snapshots are not all alike
C2_Witness ==
    /\ updates > 10
    /\ Len(config_history) = 10
    /\ StoreHistory[1].config # StoreHistory[10].config
    /\ StoreHistory[1].config # DefaultConfig(EmptyDict)

\* C3: update_config(partial) leaves every key unchanged that is absent from
\* partial or null in it; a key of the record given a non-null value takes
\* that value.
C3_NullAndAbsentKeysUnchanged ==
    [][IsUpdateStep =>
        \A k \in DOMAIN current_config :
            /\ k \in DOMAIN current_config'
            /\ IF k \in DOMAIN last_update' /\ last_update'[k] # None
               THEN Resolve(current_config', module_objs')[k] = last_update'[k][1]
               ELSE Resolve(current_config', module_objs')[k] = StoreConfig[k]]_vars

\* update({sd_vae: null, ...}) was applied to a record whose sd_vae is not the
\* default, and sd_vae is as it was
C3_Witness ==
    /\ updates > 0
    /\ "sd_vae" \in DOMAIN last_update
    /\ last_update["sd_vae"] = None
    /\ current_config["sd_vae"] = "None"
    /\ current_config["default_width"] = 1024

\* C4: a key of the partial that is not in the record is never added: the
\* record's key set is the compiled-in default key set.
C4_KeySetIsDefaultKeySet == DOMAIN current_config = DefaultKeys

\* an update gave a non-null value to a key the record does not have
C4_Witness ==
    /\ updates > 0
    /\ "default_prompt" \in DOMAIN last_update
    /\ last_update["default_prompt"] # None

----------------------------------------------------------------------------
(* Claims about POST /config *)

\* the step is a POST /config
IsPostConfigStep == last_post' # last_post

\* C10: POST /config overwrites exactly the fields its body supplies with a
\* non-null value: a field the body omits keeps its value and no value for
\* it is forwarded to the image backend.
C10_PostConfigKeepsOmittedFields ==
    [][IsPostConfigStep =>
        \A f \in DOMAIN current_config :
            (f \notin DOMAIN last_post'.body \/ last_post'.body[f] = None) =>
                /\ Resolve(current_config', module_objs')[f] = StoreConfig[f]
                /\ last_post'.forge_updates # NoValue =>
                       f \notin DOMAIN last_post'.forge_updates]_vars

\* the answers of the image backend to the forwarded options that count as
\* a failure to forward
ForwardFailures == OptionsOutcomes \ {"200"}

\* C11: when POST /config fails to forward the model/vae change to the image
\* backend (non-200 answer, timeout, connection error) the call still
\* succeeds: the record takes every non-null field of the body, one history
\* entry holding the record as it was is appended, and the answer is 200
\* with the updated record.
C11_ForwardFailureIsNotRaised ==
    [][IsPostConfigStep /\ last_post'.forge_result \in ForwardFailures =>
        /\ last_post'.status_code = 200
        /\ last_post'.updated_config = Resolve(current_config', module_objs')
        /\ \A f \in DOMAIN last_post'.body :
               last_post'.body[f] # None =>
                   last_post'.updated_config[f] = last_post'.body[f][1]
        /\ Len(entry_objs') = Len(entry_objs) + 1
        /\ Len(config_history') = Len(config_history) + 1
        /\ ResolveHistory(config_history', entry_objs', module_objs')
               [Len(config_history')].config = StoreConfig]_vars

\* a POST /config with a model of its own was answered although the backend
\* refused the forwarded options, after an earlier update
C11_Witness ==
    /\ last_post # NoValue
    /\ last_post.forge_result \in ForwardFailures
    /\ last_post.body = BodyModel
    /\ last_post.status_code = 200
    /\ last_post.update_no = 2
    /\ StoreConfig.sd_model_checkpoint = "flux1-dev.safetensors"

\* the process has just started: nothing was asked of it yet
JustStarted == updates = 0

\* C20: loading the configuration from a persisted file that lacks a key of
\* the compiled-in default set yields a record that has that key with its
\* compiled-in default and every persisted key with its persisted value, and
\* the file is rewritten with the full key set; a failed or missing read
\* yields the compiled-in defaults.
C20_LoadBackfillsMissingKeys ==
    JustStarted =>
        IF config_file.exists /\ config_file.parses
        THEN /\ \A k \in DefaultKeys :
                    StoreConfig[k] = IF k \in DOMAIN config_file.current_config
                                     THEN config_file.current_config[k]
                                     ELSE Resolve(DefaultConfig(1), <<EmptyDict>>)[k]
             /\ DOMAIN config_file.current_config = DefaultKeys
        ELSE StoreConfig = Resolve(DefaultConfig(1), <<EmptyDict>>)

\* the step is a POST /config/reset
IsResetStep == last_reset'.request_no = last_reset.request_no + 1

\* C19: a reset operation (POST /config/reset, which the settings page
\* calls) exists and, from any state, replaces the current record with the
\* compiled-in defaults, returns the new configuration and leaves the
\* history as it was.
C19_ResetRestoresDefaults ==
    [][IsResetStep =>
        /\ last_reset'.response.status_code = 200
        /\ Resolve(current_config', module_objs') = Resolve(DefaultConfig(1), <<EmptyDict>>)
        /\ "config" \in DOMAIN last_reset'.response
        /\ last_reset'.response.config = Resolve(current_config', module_objs')
        /\ ResolveHistory(config_history', entry_objs', module_objs') = StoreHistory]_vars

----------------------------------------------------------------------------
(* Claims about GET /config *)

\* the step is a GET /config
IsGetConfigStep == last_get' # last_get

\* the answer carries the record and the history of the store
CarriesConfigAndHistory ==
    /\ last_get'.response.status_code = 200
    /\ last_get'.response.current_config = StoreConfig
    /\ last_get'.response.config_history = StoreHistory

\* C12 as stated: GET /config never fails because of the image backend; the
\* list of every enrichment call (models, vaes, modules) that failed or got
\* a non-success status is empty, and the answer still carries the current
\* configuration and the history.
C12_FailedEnrichmentGivesEmptyList ==
    [][IsGetConfigStep =>
        /\ CarriesConfigAndHistory
        /\ EnrichmentFailed(last_get'.models) =>
               last_get'.response.available_models = << >>
        /\ EnrichmentFailed(last_get'.vaes) =>
               last_get'.response.available_vaes = << >>
        /\ EnrichmentFailed(last_get'.modules) =>
               last_get'.response.available_modules = << >>]_vars

\* C12 amended: GET /config never fails because of the image backend; the
\* models list and the modules list are empty when their call failed or got
\* a non-success status, the vaes list is "Automatic", "None" whatever the
\* backend did, and the answer still carries the current configuration and
\* the history.
C12_FailedEnrichmentNeverFails ==
    [][IsGetConfigStep =>
        /\ CarriesConfigAndHistory
        /\ EnrichmentFailed(last_get'.models) =>
               last_get'.response.available_models = << >>
        /\ last_get'.response.available_vaes = <<"Automatic", "None">>
        /\ EnrichmentFailed(last_get'.modules) =>
               last_get'.response.available_modules = << >>]_vars

\* all three enrichment calls failed after a POST /config changed the record
C12_Witness ==
    /\ last_get # NoValue
    /\ EnrichmentFailed(last_get.models)
    /\ EnrichmentFailed(last_get.vaes)
    /\ EnrichmentFailed(last_get.modules)
    /\ last_get.response.status_code = 200
    /\ Len(last_get.response.config_history) = 1
    /\ last_get.response.current_config.default_width = 1024

----------------------------------------------------------------------------
(* Claims about the copies the store returns *)

\* the step is a change a caller makes to a value it was returned
IsCallerMutation == mutations' = mutations + 1

\* C5: no mutation a caller performs on a value returned by get_config() or
\* get_history(), the nested selected_modules mapping and the entries of
\* the returned list included, changes the store's record or history.
C5_ReturnedValuesAreDefensiveCopies ==
    [][IsCallerMutation =>
        /\ Resolve(current_config', module_objs') = StoreConfig
        /\ ResolveHistory(config_history', entry_objs', module_objs') = StoreHistory]_vars

----------------------------------------------------------------------------
(* Claims about the prompt combiner *)

\* the tags of the two texts, in order: the trimmed non-empty runs between
\* the commas of defaultText, then those of userText
GivenTags ==
    trimmed_tags(split(combined.defaultText)) \o trimmed_tags(split(combined.userText))

\* the positions of GivenTags whose tag equals no earlier tag, ignoring case
FirstOccurrences ==
    {i \in 1..Len(GivenTags) :
        \A j \in 1..(i - 1) : TagKey(GivenTags[j]) # TagKey(GivenTags[i])}

\* the k-th smallest position of FirstOccurrences
KthFirstOccurrence(k) ==
    CHOOSE i \in FirstOccurrences : Cardinality({j \in FirstOccurrences : j <= i}) = k

\* C18: combine(defaultText, userText) is the tags of defaultText followed
\* by those of userText, trimmed, without the empty tags and without every
\* tag that equals an earlier one ignoring case, in the order and casing of
\* the first occurrences, joined with ", "; combine("A, b", "a, B, c") is
\* "A, b, c".
C18_CombineKeepsFirstOccurrences ==
    (combined # NoValue /\ combined.mergedText # None) =>
        LET merged == combined.mergedText[1]
            tags   == split(merged)
        IN /\ merged # << >> =>
                  /\ Len(tags) = Cardinality(FirstOccurrences)
                  /\ \A k \in 1..Len(tags) :
                         /\ tags[k] = IF k = 1 THEN GivenTags[KthFirstOccurrence(k)]
                                       ELSE <<" ">> \o GivenTags[KthFirstOccurrence(k)]
           /\ merged = << >> => FirstOccurrences = {}
           /\ (/\ combined.defaultText = <<"A", ",", " ", "b">>
               /\ combined.userText = <<"a", ",", " ", "B", ",", " ", "c">>)
                  => merged = <<"A", ",", " ", "b", ",", " ", "c">>

\* combine("A, b", "a, B, c") was computed
C18_Witness ==
    /\ combined # NoValue
    /\ combined.defaultText = <<"A", ",", " ", "b">>
    /\ combined.userText = <<"a", ",", " ", "B", ",", " ", "c">>
    /\ combined.mergedText = Some(<<"A", ",", " ", "b", ",", " ", "c">>)

----------------------------------------------------------------------------
(* Claims about POST /get_image *)

\* the request failed at the backend call, which ended as kind
GenerateEnded(kind) ==
    /\ req.pc = "Failed"
    /\ req.forge_outcome # NoValue
    /\ req.forge_outcome.kind = kind

\* C6: when the image backend call times out, the response has status 504
\* and a detail containing "timeout".
C6_BackendTimeoutAnswers504 ==
    GenerateEnded("Timeout") =>
        /\ req.response.status_code = 504
        /\ ContainsTimeout(req.response.detail)

\* C7: when the image backend answers generate with a non-success status,
\* the response carries the backend's status code.
C7_BackendStatusIsPassedOn ==
    (GenerateEnded("response") /\ req.forge_outcome.status_code # 200) =>
        req.response.status_code = req.forge_outcome.status_code

\* C8: if the translation call fails, the request ends in Failed with status
\* 500, generate is never called and no file is written for the request.
C8_TranslationFailureIsTerminal ==
    req.translate_outcome \notin {"not called", "response"} =>
        /\ req.pc = "Failed"
        /\ req.response.status_code = 500
        /\ req.generate_calls = 0
        /\ req.forge_params = NoValue
        /\ req.written = << >>

\* a request whose translation call raised
C8_Witness ==
    /\ req.translate_outcome = "ResponseError"
    /\ req.pc = "Failed"

\* t is raw without the whitespace at its two ends
IsTrimmed(t, raw) ==
    /\ t # << >> => t[1] \notin Whitespace /\ t[Len(t)] \notin Whitespace
    /\ \E i \in 0..Len(raw) :
           /\ i + Len(t) <= Len(raw)
           /\ SubSeq(raw, i + 1, i + Len(t)) = t
           /\ \A k \in (1..i) \cup ((i + Len(t) + 1)..Len(raw)) : raw[k] \in Whitespace

\* C13: on a successful POST /get_image, translated_prompt and
\* generation_info.translated_prompt of the result both equal the text the
\* translation backend returned, trimmed, and generation_info.original_prompt
\* equals the request's source-language prompt unchanged.
C13_ResultCarriesTranslationAndSource ==
    req.pc = "Completed" =>
        /\ req.response.status_code = 200
        /\ IsTrimmed(req.response.body.translated_prompt, req.ollama_response)
        /\ req.response.body.generation_info.translated_prompt
               = req.response.body.translated_prompt
        /\ req.response.body.generation_info.original_prompt
               = req.body.japanese_prompt

\* a request completed whose translation came back with whitespace around it
C13_Witness ==
    /\ req.pc = "Completed"
    /\ req.ollama_response[1] \in Whitespace
    /\ req.response.body.translated_prompt
           = <<"cat", ",", " ", "Cat", ",", ",", "sitting">>
    /\ Len(req.response.body.saved_files) = 2

\* the three-digit texts of the first indices
ThreeDigits == <<"000", "001", "002", "003">>

\* C14: on a successful POST /get_image, saved_files has exactly one entry
\* per image the backend returned, in the backend's order, and entry i
\* (counting from 0) is the path in the save directory named
\* generated_<time of the write>_<i as 3 digits>.png, which holds image i;
\* when the backend returned no images saved_files is empty and the request
\* still completes.
C14_OneSavedFilePerImage ==
    req.pc = "Completed" =>
        LET images == IF "images" \in DOMAIN req.forge_outcome.json
                      THEN req.forge_outcome.json.images ELSE << >>
            saved  == req.response.body.saved_files
        IN /\ req.response.status_code = 200
           /\ Len(saved) = Len(images)
           /\ \A i \in 1..Len(saved) :
                  /\ \E t \in 0..now :
                         saved[i] = "/app/images/generated_" \o ToString(t) \o "_"
                                        \o ThreeDigits[i] \o ".png"
                  /\ [path |-> saved[i], data |-> images[i].bytes] \in disk

\* a request completed with an image written after the clock advanced
C14_Witness ==
    /\ req.pc = "Completed"
    /\ "images" \in DOMAIN req.forge_outcome.json
    /\ Len(req.forge_outcome.json.images) = 2
    /\ req.response.body.saved_files = <<"/app/images/generated_0_000.png",
                                          "/app/images/generated_1_001.png">>

\* text occurs in detail as a run of consecutive tokens
OccursIn(text, detail) ==
    \E i \in 0..(Len(detail) - Len(text)) : SubSeq(detail, i + 1, i + Len(text)) = text

\* C15: a POST /get_image that fails at any stage (translation, backend
\* call, persistence of any image) returns only an error response: a status
\* and a detail, which hold neither the translated prompt nor the images nor
\* the path of a file saved for the request.
C15_FailureReturnsNoPartialResult ==
    req.pc = "Failed" =>
        /\ req.response.status_code >= 400
        /\ DOMAIN req.response = {"status_code", "detail"}
        /\ \A i \in 1..Len(req.written) :
               ~OccursIn(<<req.written[i]>>, req.response.detail)
        /\ req.translated_prompt # NoValue =>
               ~OccursIn(req.translated_prompt, req.response.detail)

\* the request failed at the second image, after the first was written
C15_Witness ==
    /\ req.pc = "Failed"
    /\ Len(req.written) = 1
    /\ \E f \in disk : f.path = req.written[1]
    /\ req.response.status_code = 500

\* the request failed because the file system refused a write
PersistenceDenied ==
    /\ req.pc = "Failed"
    /\ req.forge_response # NoValue
    /\ req.i < Len(req.forge_response.images)

\* C16: when writing an image is denied by the file-system permissions,
\* POST /get_image answers 500 and the detail of the answer includes the
\* configured save directory path.
C16_PermissionDeniedNamesSaveDir ==
    PersistenceDenied =>
        /\ req.response.status_code = 500
        /\ OccursIn(<<SAVE_DIR>>, req.response.detail)

\* C17: the prompt POST /get_image sends to the image backend is
\* combine(configuration default prompt, translated text) and the negative
\* prompt it sends is combine(configuration default negative prompt, request
\* negative prompt); with empty defaults these are the normalised translated
\* text and request negative prompt.
C17_SentPromptsAreCombined ==
    req.forge_params # NoValue =>
        /\ NonEmptyTokens(req.forge_params.prompt)
               = combine(Get(req.current_config, "default_prompt", << >>),
                         req.translated_prompt)
        /\ NonEmptyTokens(req.forge_params.negative_prompt)
               = combine(Get(req.current_config, "default_negative_prompt", << >>),
                         req.request.negative_prompt)

\* the first of the two selections that is made
FirstSelected(selected, configured) ==
    IF selected # None THEN selected[1] ELSE configured

\* C21: the model and vae used for the backend call of POST /get_image are
\* the request's selected_model / selected_vae when given, else the
\* configuration's sd_model_checkpoint / sd_vae, and a selected_text_encoder
\* or selected_unet of the request is applied to the backend call too.
C21_SelectionsReachBackendCall ==
    req.forge_params # NoValue =>
        /\ "override_settings" \in DOMAIN req.forge_params
        /\ req.forge_params.override_settings.sd_model_checkpoint
               = FirstSelected(req.request.selected_model,
                               req.current_config.sd_model_checkpoint)
        /\ req.forge_params.override_settings.sd_vae
               = FirstSelected(req.request.selected_vae, req.current_config.sd_vae)
        /\ \A f \in {"selected_text_encoder", "selected_unet"} :
               req.request[f] # None =>
                   req.request[f][1]
                       \in req.forge_params.override_settings.forge_additional_modules

\* the optional numeric fields of the request, with the key of the
\* configuration default and the key of the backend parameter of each
NumericFields ==
    {<<"width", "default_width", "width">>,
     <<"height", "default_height", "height">>,
     <<"cfg_scale", "default_cfg_scale", "cfg_scale">>,
     <<"steps", "default_steps", "steps">>,
     <<"batch_size", "default_batch_size", "batch_size">>,
     <<"batch_count", "default_batch_count", "n_iter">>}

\* C9: when the request omits an optional numeric field, the value sent to
\* the image backend for it is the configuration record's current default.
C9_OmittedFieldTakesConfigDefault ==
    req.forge_params # NoValue =>
        \A f \in NumericFields :
            f[1] \notin DOMAIN req.body =>
                req.forge_params[f[3]] = req.current_config[f[2]]

\* C22: in the parameter merge of POST /get_image, each of width, height,
\* cfg_scale, steps, batch_size and batch_count is the request's value when
\* that is not zero and the configuration's current default when it is zero,
\* the dynamic-prompts flag is (request flag or configuration flag), and
\* these merged values are the ones sent to the backend.
C22_FalsyRequestValueTakesConfigDefault ==
    req.params # NoValue =>
        /\ \A f \in NumericFields :
               /\ req.request[f[1]] # 0 => req.params[f[1]] = req.request[f[1]]
               /\ req.request[f[1]] = 0 => req.params[f[1]] = req.current_config[f[2]]
               /\ req.forge_params # NoValue =>
                      req.forge_params[f[3]] = req.params[f[1]]
        /\ req.params.dynamic_prompts
               = (req.request.dynamic_prompts
                  \/ req.current_config.dynamic_prompts_enabled)
        /\ req.forge_params # NoValue =>
               ("Dynamic Prompts" \in req.forge_params.alwayson_scripts)
                   = req.params.dynamic_prompts

\* a request of zeros and dynamic_prompts false was merged over a
\* configuration whose defaults had been changed and sent to the backend
C22_Witness ==
    /\ req.forge_params # NoValue
    /\ req.request.dynamic_prompts = FALSE
    /\ req.current_config.dynamic_prompts_enabled = TRUE
    /\ req.params.dynamic_prompts = TRUE
    /\ \A f \in NumericFields :
           /\ req.request[f[1]] = 0
           /\ req.current_config[f[2]] # 0
           /\ req.current_config[f[2]] # DefaultConfig(FluxModules)[f[2]]
           /\ req.forge_params[f[3]] = req.current_config[f[2]]

\* C23: the translation of POST /get_image is made with the model the
\* request supplies and, when the request supplies none, with the default
\* translation model, never with the image checkpoint identifier.
C23_TranslationUsesTranslationModel ==
    req.translate_outcome # "not called" =>
        /\ req.ollama_model = Get(req.body, "model", DEFAULT_TRANSLATE_MODEL)
        /\ "model" \notin DOMAIN req.body => req.ollama_model # DEFAULT_FORGE_MODEL

\* a turn of the persistence loop in which the write fails
IsPersistFailure == req.pc = "persist" /\ req'.pc = "Failed"

\* C24: when the backend returned k images and writing image j fails, the
\* files of images 0..j-1 have been written and stay on disk, no file is
\* written for the images after j, and the request ends in Failed with
\* status 500.
C24_FailedWriteKeepsEarlierFiles ==
    [][/\ IsPersistFailure =>
           /\ Len(req.written) = req.i
           /\ req'.written = req.written
           /\ \A n \in 1..req.i :
                  [path |-> req.written[n],
                   data |-> b64decode(req.forge_response.images[n])] \in disk'
           /\ disk' = disk
           /\ req'.response.status_code = 500
       /\ (req.pc = "Failed" /\ req'.pc = "Failed") => disk' = disk]_vars

\* the write of the second image of two failed after the first was written
C24_Witness ==
    /\ PersistenceDenied
    /\ req.i >= 1
    /\ Len(req.written) = req.i
    /\ \A n \in 1..req.i :
           \E f \in disk : f.path = req.written[n]
    /\ req.response.status_code = 500

\* the stages of a request in the order the handler goes through them; a
\* step from Completed or Failed is the arrival of the next request
StageOrder ==
    {<<"idle", "translate">>,
     <<"translate", "merge">>, <<"translate", "Failed">>,
     <<"merge", "generate">>,
     <<"generate", "persist">>, <<"generate", "respond">>, <<"generate", "Failed">>,
     <<"persist", "persist">>, <<"persist", "respond">>, <<"persist", "Failed">>,
     <<"respond", "Completed">>,
     <<"Completed", "translate">>, <<"Failed", "translate">>}

\* a step of the request that ends it in Failed
FailingStep ==
    /\ \/ \E outcome \in TranslateOutcomes, shows \in BOOLEAN :
              get_image_translate(outcome, shows)
       \/ \E outcome \in GenerateOutcomes, shows \in BOOLEAN :
              get_image_generate(outcome, shows)
       \/ \E outcome \in SaveOutcomes, shows \in BOOLEAN :
              get_image_persist(outcome, shows)
    /\ req'.pc = "Failed"

Terminal == {"Completed", "Failed"}

\* C25: a POST /get_image request goes through translate, configuration
\* read, backend generate, file writes and response in this order: generate
\* is called at most once and only after the translation succeeded, no file
\* is written unless generate succeeded, the request can fail at the
\* translation, at the backend call (the stage after the configuration read)
\* and at a file write, and it ends in exactly one of Completed (200) and
\* Failed (500), which only the arrival of the next request leaves.
C25_StagesInOrder ==
    /\ [](/\ req.generate_calls <= 1
          /\ req.generate_calls = 1 =>
                 /\ req.translate_outcome = "response"
                 /\ req.translated_prompt # NoValue
                 /\ req.params # NoValue
          /\ req.written # << >> =>
                 /\ req.generate_calls = 1
                 /\ req.forge_outcome.kind = "response"
                 /\ req.forge_outcome.status_code = 200
          /\ req.pc = "Completed" => req.response.status_code = 200
          /\ req.pc = "Failed" => req.response.status_code = 500
          /\ req.pc \notin Terminal => req.response = NoValue
          /\ req.pc \in {"translate", "generate", "persist"} => ENABLED FailingStep
          /\ req.pc = "merge" => ENABLED get_image_merge)
    /\ [][/\ req' # req => <<req.pc, req'.pc>> \in StageOrder
          /\ (req.pc \in Terminal /\ req' # req) =>
                 /\ requests' = requests + 1
                 /\ req'.generate_calls = 0
                 /\ req'.written = << >>
          /\ req'.generate_calls # req.generate_calls =>
                 req.pc \in Terminal \cup {"generate"}
          /\ disk' # disk => req.pc = "persist"]_vars

\* a request went through all the stages and wrote every returned image
C25_Witness ==
    /\ req.pc = "Completed"
    /\ req.translate_outcome = "response"
    /\ req.generate_calls = 1
    /\ Len(req.written) = MaxImages
    /\ req.response.status_code = 200

\* the passthrough endpoints that take a body and have a clause for a timeout
PostPassthroughs == {"POST /sd/sdapi/v1/txt2img", "POST /sd/sdapi/v1/img2img"}

\* C26: a passthrough endpoint forwards the request body unmodified, returns
\* the backend's JSON on status 200, answers a non-200 backend response with
\* the backend's own status code, and (txt2img, img2img) answers a timeout
\* with 504.
C26_PassthroughKeepsBackendStatus ==
    last_proxy.request_no > 0 =>
        /\ last_proxy.sent = last_proxy.body
        /\ last_proxy.outcome.kind = "response" =>
               /\ last_proxy.response.status_code = last_proxy.outcome.status_code
               /\ last_proxy.outcome.status_code = 200 =>
                      last_proxy.response.body = last_proxy.outcome.json
        /\ (last_proxy.outcome.kind = "Timeout"
              /\ last_proxy.endpoint \in PostPassthroughs) =>
               last_proxy.response.status_code = 504

\* the keys of the record that an update_config argument writes
Written(new_config) ==
    {k \in DOMAIN new_config \cap DefaultKeys : new_config[k] # None}

IsGetImageStep == req' # req

\* C28: POST /get_image and GET /config are read-only with respect to the
\* configuration store: whether they complete or fail, at whatever stage,
\* the current record and the history are the same after as before.
C28_ReadersLeaveStoreUnchanged ==
    [][(IsGetImageStep \/ IsGetConfigStep) =>
          /\ Resolve(current_config', module_objs') = StoreConfig
          /\ ResolveHistory(config_history', entry_objs', module_objs') = StoreHistory
          /\ current_config' = current_config
          /\ config_history' = config_history]_vars

\* after a POST /config changed the record: a POST /get_image that read it
\* has ended, and a GET /config has answered with it
C28_Witness ==
    /\ updates > 0
    /\ StoreConfig # DefaultConfig(EmptyDict)
    /\ req.pc \in Terminal
    /\ req.current_config # NoValue
    /\ Resolve(req.current_config, module_objs) = StoreConfig
    /\ last_get # NoValue
    /\ last_get.response.current_config = StoreConfig
    /\ Len(StoreHistory) = updates

\* the step writes an image file
IsWriteStep == req.pc = "persist" /\ Len(req'.written) = Len(req.written) + 1

\* C29: no saved image is ever overwritten: every image written gets a
\* file path different from every path written earlier, by this request or
\* by an earlier one, also when both are written in the same clock second.
C29_NoSavedImageOverwritten ==
    [][IsWriteStep =>
          LET filepath == req'.written[Len(req'.written)]
          IN /\ \A f \in disk : f.path # filepath
             /\ \A n \in 1..Len(req.written) : req.written[n] # filepath]_vars

\* C30: the generation parameters of a POST /get_image are fixed by the one
\* read of the configuration made after the translation: a configuration
\* update applied later, during the backend call or the writes, changes
\* neither the parameters sent nor the record they were merged from, and
\* the parameters echoed in the response are the values sent to the backend.
C30_ParametersFixedBySingleRead ==
    /\ [](/\ req.params # NoValue <=> req.current_config # NoValue
          /\ req.params # NoValue => req.translate_outcome = "response"
          /\ req.forge_params # NoValue =>
                 /\ \A f \in NumericFields : req.forge_params[f[3]] = req.params[f[1]]
                 /\ req.forge_params.negative_prompt = req.params.negative_prompt
                 /\ ("Dynamic Prompts" \in req.forge_params.alwayson_scripts)
                        = req.params.dynamic_prompts
          /\ req.pc = "Completed" =>
                 /\ req.response.body.parameters = req.params
                 /\ \A f \in NumericFields :
                        req.response.body.parameters[f[1]] = req.forge_params[f[3]])
    /\ [][(req.params # NoValue /\ requests' = requests) =>
              /\ req'.params = req.params
              /\ req'.current_config = req.current_config
              /\ req.forge_params # NoValue => req'.forge_params = req.forge_params]_vars

\* a request of zeros has sent the defaults of the record it read and written
\* its images, its response is still to be built, and a POST /config has
\* changed those defaults in the store since the read
C30_Witness ==
    /\ req.pc = "respond"
    /\ Len(req.written) >= 1
    /\ req.request.width = 0
    /\ req.request.dynamic_prompts = FALSE
    /\ req.params.width = req.current_config.default_width
    /\ req.forge_params.width = req.current_config.default_width
    /\ StoreConfig.default_width # req.current_config.default_width
    /\ StoreConfig.dynamic_prompts_enabled # req.params.dynamic_prompts

====
